---- MODULE Spec2Model ----
(***************************************************************************)
(* A model of the log package of tsisar/extended-log-go: the level gate,   *)
(* the console and file handlers, the multi handler, daily rotation,       *)
(* retention cleanup, Fatal, the .env loader, the Fprintf functions and    *)
(* writer adapters, and the caller annotation.                             *)
(*                                                                         *)
(* Time is counted in hours since an epoch, in UTC.  A calendar date is a  *)
(* day number; the text "YYYY-MM-DD" of a date is the record               *)
(* [wf |-> TRUE, day |-> d], and a text that time.Parse rejects has        *)
(* wf = FALSE.  A time zone is a fixed offset in hours.                    *)
(***************************************************************************)
EXTENDS Integers, Sequences, FiniteSets, TLC

VARIABLES
    config,     \* Config after init() read the environment
    logLevel,   \* the shared slog.LevelVar
    now,        \* the wall clock, hours since the epoch (UTC)
    dir,        \* the log directory: name -> [isDir, data]
    hFile,      \* FileHandler.file
    openFds,    \* descriptors the FileHandler opened and has not closed
    console,    \* lines written to os.Stdout by ConsoleHandler
    diag,       \* what fprintf wrote: [stderr, stdout] counts
    pc,         \* where the calling goroutine is
    rec,        \* the slog.Record of the call in progress
    calls,      \* number of public calls made
    trace,      \* what the dispatch of the current call did
    op,         \* what the last FileHandler operation saw and did
    ioFailed,   \* some I/O operation has failed since start
    lastDay,    \* the date the previous FileHandler operation observed
    lastEnd,    \* how the previous FileHandler operation's ensureLogFile ended
    exitCode,   \* the status passed to os.Exit; -1 while the process runs
    dir0,       \* the directory before cleanOldLogs ran on its own
    env,        \* the process environment: key -> [set, val]
    env0,       \* the environment before loadEnv
    envFile,    \* the .env file: [exists, lines]
    envPos,     \* the line the scanner of loadEnv is at; 0 before the call
    cpc,        \* ConsoleHandler.Handle: where each calling goroutine is
    mu,         \* ConsoleHandler.mu: the goroutine holding it, 0 when free
    stream,     \* the bytes written to ConsoleHandler.w
    stack,      \* the call stack of the logging goroutine, innermost frame first
    spc,        \* where that goroutine is on its way to the handlers
    callers     \* the frames getCaller returned, one per emitted line

mainVars == <<config, logLevel, now, dir, hFile, openFds, console, diag, pc, rec,
              calls, trace, op, lastDay, lastEnd, ioFailed, exitCode, dir0>>

envVars == <<env, env0, envFile, envPos>>

conVars == <<cpc, mu, stream>>

stkVars == <<stack, spc, callers>>

vars == <<mainVars, envVars, conVars, stkVars>>

----------------------------------------------------------------------------
(* Bounds of the model *)

MaxCalls == 2
MaxMsgLen == 1
MaxRetention == 1
MaxTicks == 3
MaxFaults == 1
CleanMaxRetention == 7
CleanDays == 10
MaxEnvLines == 2
NumWriters == 2
ConCalls == 3
LineLen == 2

(* Program constants *)

LevelDebug == -4
LevelInfo == 0
LevelWarn == 4
LevelError == 8
HoursPerDay == 24
ExitStatus == 1
CallerSkip == 6

(* The clock advances in steps of six hours; zones are fixed offsets. *)
TickHours == 6
StartDay == 3
StartHour == 18
Offsets == {-12, 0, 14}

----------------------------------------------------------------------------
(* Names, dates, the directory *)

DateText(d) == [wf |-> TRUE, day |-> d]

Name(stem, ext) == [wf |-> stem.wf, day |-> stem.day, ext |-> ext]

LogName(d) == Name(DateText(d), ".log")

NoName == [wf |-> FALSE, day |-> 0, ext |-> ""]

\* t.In(location) read as a calendar date
LocalDay(t, off) == (t + off) \div HoursPerDay

\* now.Format("2006-01-02") + ".log"
LogFileName(t, off) == Name(DateText(LocalDay(t, off)), ".log")

\* time.Parse("2006-01-02", dateStr): the instant of that date's midnight, UTC
ParseDate(n) == [err |-> ~n.wf, instant |-> n.day * HoursPerDay]

HasSuffixLog(n) == n.ext = ".log"

Restrict(f, S) == [x \in S |-> f[x]]

RegularFile(data) == [isDir |-> FALSE, data |-> data]

Directory == [isDir |-> TRUE, data |-> <<>>]

\* utils fprintf: one message on os.Stderr, then "n bytes written." on stdout
fprintf(dg) == [stderr |-> dg.stderr + 1, stdout |-> dg.stdout + 1]

RECURSIVE fprintfTimes(_, _)
fprintfTimes(dg, n) == IF n = 0 THEN dg ELSE fprintfTimes(fprintf(dg), n - 1)

----------------------------------------------------------------------------
(* cleanOldLogs: rmErr is the set of names whose os.Remove fails *)

cleanOldLogs(d, retentionDays, t, readDirErr, rmErr) ==
    IF retentionDays <= 0 THEN [dir |-> d, reports |-> 0, ioErr |-> FALSE]
    ELSE IF readDirErr THEN [dir |-> d, reports |-> 0, ioErr |-> TRUE]
    ELSE
      LET cutoffDate == t - retentionDays * HoursPerDay
          old == {n \in DOMAIN d :
                    /\ ~d[n].isDir
                    /\ HasSuffixLog(n)
                    /\ ~ParseDate(n).err
                    /\ ParseDate(n).instant < cutoffDate}
          failed == old \cap rmErr
      IN [dir |-> Restrict(d, (DOMAIN d) \ (old \ rmErr)),
          reports |-> Cardinality(failed),
          ioErr |-> failed # {}]

----------------------------------------------------------------------------
(* FileHandler *)

NilFile == [fd |-> 0, name |-> NoName]

NewFd(fds) == CHOOSE n \in 1..(Cardinality(fds) + 1) : n \notin fds

isCurrentNever(h, fds, fileName, statErr) == FALSE

\* h.file.Stat() succeeds and names the current day's file
isCurrent(h, fds, fileName, statErr) ==
    h.fd \in fds /\ ~statErr /\ h.name = fileName

closeFileSkipped(h, fds, closeErr) == [fds |-> fds, err |-> FALSE]

\* h.file.Close(): the descriptor is released; closing twice is an error
closeFile(h, fds, closeErr) ==
    [fds |-> fds \ {h.fd}, err |-> (h.fd \notin fds) \/ closeErr]

\* f: the failures injected into this call
\*    [stat, close, mkdir, readdir, rm, open, write]
ensureLogFile(h, fds, d, dg, cfg, t, f) ==
    LET fileName == LogFileName(t, cfg.off)
        same == [file |-> h, fds |-> fds, dir |-> d, diag |-> dg,
                 cleaned |-> FALSE, closed |-> FALSE, opened |-> FALSE,
                 mkdirFailed |-> FALSE, openFailed |-> FALSE,
                 reports |-> 0, ioErr |-> FALSE]
    IN
    IF h.fd # 0 /\ isCurrent(h, fds, fileName, f.stat) THEN same
    ELSE
      LET cl == IF h.fd # 0 THEN closeFile(h, fds, f.close)
                ELSE [fds |-> fds, err |-> FALSE]
          statFailed == h.fd # 0 /\ (h.fd \notin fds \/ f.stat)
      IN
      IF cl.err THEN [same EXCEPT !.fds = cl.fds, !.ioErr = TRUE]
      ELSE IF f.mkdir THEN
          [same EXCEPT !.fds = cl.fds, !.closed = (h.fd # 0),
                       !.diag = fprintf(dg), !.mkdirFailed = TRUE,
                       !.reports = 1, !.ioErr = TRUE]
      ELSE
        LET c == cleanOldLogs(d, cfg.retentionDays, t, f.readdir,
                              IF f.rm THEN DOMAIN d ELSE {})
            dg1 == fprintfTimes(dg, c.reports)
            fd == NewFd(cl.fds)
        IN
        IF f.open THEN
          [same EXCEPT !.fds = cl.fds, !.closed = (h.fd # 0), !.dir = c.dir,
                       !.cleaned = TRUE, !.diag = fprintf(dg1),
                       !.openFailed = TRUE, !.reports = 1, !.ioErr = TRUE]
        ELSE
          [file |-> [fd |-> fd, name |-> fileName],
           fds |-> cl.fds \cup {fd},
           dir |-> IF fileName \in DOMAIN c.dir THEN c.dir
                   ELSE [n \in (DOMAIN c.dir) \cup {fileName} |->
                           IF n = fileName THEN RegularFile(<<>>) ELSE c.dir[n]],
           diag |-> dg1,
           cleaned |-> TRUE, closed |-> (h.fd # 0), opened |-> TRUE,
           mkdirFailed |-> FALSE, openFailed |-> FALSE,
           reports |-> 0, ioErr |-> statFailed \/ c.ioErr]

FaultKinds == {"stat", "close", "mkdir", "readdir", "rm", "open", "write"}

Inject(F) == [stat |-> "stat" \in F, close |-> "close" \in F, mkdir |-> "mkdir" \in F,
              readdir |-> "readdir" \in F, rm |-> "rm" \in F, open |-> "open" \in F,
              write |-> "write" \in F]

\* the failures one FileHandler operation may meet: at most MaxFaults of them
Failures == {Inject(F) : F \in {X \in SUBSET FaultKinds : Cardinality(X) <= MaxFaults}}

\* how a call of ensureLogFile ended: at the return after a failed MkdirAll or
\* OpenFile, or otherwise
EndOf(e) == IF e.mkdirFailed \/ e.openFailed THEN "open failed" ELSE "returned"

\* the formatted line of a record: its id, level and the date of its timestamp
FormatLine(r, off) == [id |-> r.id, level |-> r.level, date |-> LocalDay(r.time, off)]

----------------------------------------------------------------------------
(* The level gate and the public API *)

LevelNames == {"debug", "info", "warn", "error", ""}

\* setLogLevel: the threshold for config.level
setLogLevel(level) ==
    CASE level = "debug" -> LevelDebug
      [] level = "info"  -> LevelInfo
      [] level = "warn"  -> LevelWarn
      [] level = "error" -> LevelError
      [] OTHER           -> LevelDebug

Apis == {"Fatal", "Fatalf", "Error", "Errorf", "Errorln", "Warn", "Warnf",
         "Info", "Infof", "Debug", "Debugf", "Println", "Printf", "Trace", "Tracef"}

\* the slog level each public function logs at
ApiLevel(api) ==
    CASE api \in {"Fatal", "Fatalf", "Error", "Errorf", "Errorln"} -> LevelError
      [] api \in {"Warn", "Warnf"} -> LevelWarn
      [] api \in {"Info", "Infof", "Println", "Printf"} -> LevelInfo
      [] OTHER -> LevelDebug

IsFatal(api) == api \in {"Fatal", "Fatalf"}

ConsoleEnabledStrict(level) == level > logLevel

\* ConsoleHandler.Enabled
ConsoleEnabled(level) == level >= logLevel

\* FileHandler.Enabled
FileEnabled(level) == level >= logLevel

\* init: the file handler exists only when LOG_SAVE is "true"
Multi == config.save = "true"

\* MultiHandler.Enabled: some handler accepts the level
MultiEnabled(level) == ConsoleEnabled(level) \/ FileEnabled(level)

\* the Enabled of the handler the logger was built with
LoggerEnabled(level) == IF Multi THEN MultiEnabled(level) ELSE ConsoleEnabled(level)

NoTrace == [cInv |-> FALSE, cErr |-> FALSE, fInv |-> FALSE, fErr |-> FALSE]

NoRec == [id |-> 0, api |-> "", level |-> LevelDebug, time |-> 0,
          fatal |-> FALSE, admitted |-> FALSE]

NoOp == [kind |-> "none", today |-> 0, prevToday |-> 0, preFile |-> NilFile,
         preOpen |-> FALSE, statErr |-> FALSE, cleaned |-> FALSE,
         closed |-> FALSE, opened |-> FALSE, mkdirFailed |-> FALSE,
         openFailed |-> FALSE, reports |-> 0, err |-> FALSE, appended |-> FALSE]

\* what a FileHandler operation records about itself
OpOf(kind, e, f, err, appended) ==
    [kind |-> kind, today |-> LocalDay(now, config.off),
     prevToday |-> lastDay,
     preFile |-> hFile, preOpen |-> hFile.fd \in openFds,
     statErr |-> hFile.fd # 0 /\ (hFile.fd \notin openFds \/ f.stat),
     cleaned |-> e.cleaned, closed |-> e.closed, opened |-> e.opened,
     mkdirFailed |-> e.mkdirFailed, openFailed |-> e.openFailed,
     reports |-> e.reports, err |-> err, appended |-> appended]

\* the variables of loadEnv and of the concurrent console writers, at rest
EnvIdle ==
    /\ env = <<>>
    /\ env0 = <<>>
    /\ envFile = [exists |-> FALSE, lines |-> <<>>]
    /\ envPos = 0

ConIdle ==
    /\ cpc = <<>>
    /\ mu = 0
    /\ stream = <<>>

StkIdle ==
    /\ stack = <<>>
    /\ spc = ""
    /\ callers = <<>>

----------------------------------------------------------------------------
(* Actions *)

\* init(): setLogLevel, newConsoleHandler, and newFileHandler when saving
InitPkg ==
    /\ pc = "boot"
    /\ logLevel' = setLogLevel(config.level)
    /\ pc' = "idle"
    /\ IF Multi
       THEN \E f \in Failures :
              LET e == ensureLogFile(NilFile, {}, dir, diag, config, now, f)
              IN /\ hFile' = e.file
                 /\ openFds' = e.fds
                 /\ dir' = e.dir
                 /\ diag' = e.diag
                 /\ op' = OpOf("new", e, f, FALSE, FALSE)
                 /\ lastDay' = LocalDay(now, config.off)
                 /\ lastEnd' = EndOf(e)
                 /\ ioFailed' = (ioFailed \/ e.ioErr)
       ELSE UNCHANGED <<hFile, openFds, dir, diag, op, lastDay, lastEnd, ioFailed>>
    /\ UNCHANGED <<config, now, console, rec, calls, trace, exitCode, dir0, envVars, conVars, stkVars>>

\* a public function: logger.<Level>(msg) checks Enabled and builds the record
Call(api) ==
    /\ pc = "idle"
    /\ calls < MaxCalls
    /\ calls' = calls + 1
    /\ rec' = [id |-> calls + 1, api |-> api, level |-> ApiLevel(api),
               time |-> now, fatal |-> IsFatal(api), admitted |-> LoggerEnabled(ApiLevel(api))]
    /\ trace' = NoTrace
    /\ pc' = IF ~LoggerEnabled(ApiLevel(api)) THEN "ret"
             ELSE IF ~Multi \/ ConsoleEnabled(ApiLevel(api)) THEN "console"
             ELSE "file"
    /\ op' = NoOp
    /\ UNCHANGED <<config, logLevel, now, dir, hFile, openFds, console, diag,
                   lastDay, lastEnd, ioFailed, exitCode, dir0, envVars, conVars, stkVars>>

\* after the console handler returned err: the next step of the dispatch
AfterConsole(err) ==
    IF ~Multi THEN "ret"
    ELSE IF err THEN "ret"
    ELSE IF FileEnabled(rec.level) THEN "file"
    ELSE "ret"

\* ConsoleHandler.Handle: one Write of the formatted line
ConsoleHandle ==
    /\ pc = "console"
    /\ \E wErr \in BOOLEAN :
         /\ console' = IF wErr THEN console
                       ELSE Append(console, FormatLine(rec, config.off))
         /\ trace' = [trace EXCEPT !.cInv = TRUE, !.cErr = wErr]
         /\ ioFailed' = (ioFailed \/ wErr)
         /\ pc' = AfterConsole(wErr)
    /\ UNCHANGED <<config, logLevel, now, dir, hFile, openFds, diag, rec, calls,
                   op, lastDay, lastEnd, exitCode, dir0, envVars, conVars, stkVars>>

\* FileHandler.Handle, under h.mu: ensureLogFile, format, write
FileHandle ==
    /\ pc = "file"
    /\ \E f \in Failures :
         LET e == ensureLogFile(hFile, openFds, dir, diag, config, now, f)
             line == FormatLine(rec, config.off)
             hasFile == e.file.fd # 0
             wErr == hasFile /\ (e.file.fd \notin e.fds \/ f.write)
             appended == hasFile /\ ~wErr /\ e.file.name \in DOMAIN e.dir
         IN /\ hFile' = e.file
            /\ openFds' = e.fds
            /\ dir' = IF appended
                      THEN [e.dir EXCEPT ![e.file.name].data = Append(@, line)]
                      ELSE e.dir
            /\ diag' = e.diag
            /\ op' = OpOf("handle", e, f, wErr, appended)
            /\ lastDay' = LocalDay(now, config.off)
            /\ lastEnd' = EndOf(e)
            /\ trace' = [trace EXCEPT !.fInv = TRUE, !.fErr = wErr]
            /\ ioFailed' = (ioFailed \/ e.ioErr \/ wErr)
    /\ pc' = "ret"
    /\ UNCHANGED <<config, logLevel, now, console, rec, calls, exitCode, dir0, envVars, conVars, stkVars>>

\* the public function returns; Fatal and Fatalf then call os.Exit(1)
Return ==
    /\ pc = "ret"
    /\ IF rec.fatal
       THEN /\ pc' = "exited"
            /\ exitCode' = ExitStatus
            /\ UNCHANGED <<rec, trace, op>>
       ELSE /\ pc' = "idle"
            /\ exitCode' = exitCode
            /\ rec' = NoRec
            /\ trace' = NoTrace
            /\ op' = NoOp
    /\ UNCHANGED <<config, logLevel, now, dir, hFile, openFds, console, diag,
                   calls, lastDay, lastEnd, ioFailed, dir0, envVars, conVars, stkVars>>

MaxNow == StartDay * HoursPerDay + StartHour + MaxTicks * TickHours

\* the wall clock advances.  The clock is read when a record is built (Call) and in
\* ensureLogFile (InitPkg, FileHandle): an advance anywhere between two reads is
\* an advance before the second.
Tick ==
    /\ pc \in {"idle", "file"}
    /\ now + TickHours <= MaxNow
    /\ now' = now + TickHours
    /\ UNCHANGED <<config, logLevel, dir, hFile, openFds, console, diag, pc, rec,
                   calls, trace, op, lastDay, lastEnd, ioFailed, exitCode, dir0, envVars, conVars, stkVars>>

----------------------------------------------------------------------------
(* Specification of the gate and the dispatch: every threshold, every public
   function, both configurations, one zone *)

Init ==
    /\ config \in [level : LevelNames, save : {"true", ""},
                   retentionDays : {MaxRetention}, off : {0}]
    /\ logLevel = LevelInfo
    /\ now = StartDay * HoursPerDay + StartHour
    /\ dir = <<>>
    /\ hFile = NilFile
    /\ openFds = {}
    /\ console = <<>>
    /\ diag = [stderr |-> 0, stdout |-> 0]
    /\ pc = "boot"
    /\ rec = NoRec
    /\ calls = 0
    /\ trace = NoTrace
    /\ op = NoOp
    /\ lastDay = -1
    /\ lastEnd = "returned"
    /\ ioFailed = FALSE
    /\ exitCode = -1
    /\ dir0 = <<>>
    /\ EnvIdle
    /\ ConIdle
    /\ StkIdle

Next ==
    \/ InitPkg
    \/ \E api \in Apis : Call(api)
    \/ ConsoleHandle
    \/ FileHandle
    \/ Return

Spec == Init /\ [][Next]_vars

----------------------------------------------------------------------------
(* Lines delivered *)

\* how many lines of record id a sequence of lines holds
CountIn(lines, id) == Cardinality({i \in DOMAIN lines : lines[i].id = id})

\* the places (file, position) in the log directory that hold a line of record id
FilePlaces(id) ==
    UNION {{<<n, i>> : i \in {j \in DOMAIN dir[n].data : dir[n].data[j].id = id}} :
             n \in DOMAIN dir}

\* the order of the levels as the claim names them
ClaimRank(name) ==
    CASE name \in {"debug", "Debug", "Debugf", "Trace", "Tracef"} -> 1
      [] name \in {"info", "Info", "Infof", "Println", "Printf"} -> 2
      [] name \in {"warn", "Warn", "Warnf"} -> 3
      [] OTHER -> 4

Thresholds == {"debug", "info", "warn", "error"}

\* C1: when a public function of level L returns and no I/O has failed, with a
\* threshold T among debug, info, warn, error: if L >= T the console holds exactly
\* one line of the record and, when the file handler is active, the log files hold
\* exactly one; if L < T no sink holds any line of it.
LevelGate ==
    (pc = "ret" /\ ~ioFailed /\ config.level \in Thresholds) =>
        LET n == IF ClaimRank(rec.api) >= ClaimRank(config.level) THEN 1 ELSE 0
        IN /\ CountIn(console, rec.id) = n
           /\ Cardinality(FilePlaces(rec.id)) = (IF Multi THEN n ELSE 0)

\* a Warn call at threshold warn has returned with one line on each of the two sinks
LevelGateWitness ==
    /\ pc = "ret" /\ ~ioFailed /\ Multi
    /\ config.level = "warn" /\ rec.api = "Warn"
    /\ CountIn(console, rec.id) = 1
    /\ Cardinality(FilePlaces(rec.id)) = 1

\* C2: in MultiHandler.Handle, when the console handler's Handle returned an error
\* for an admitted record, the file handler's Handle has still been invoked for it.
NoShortCircuit ==
    (pc = "ret" /\ Multi /\ rec.admitted /\ trace.cErr) => trace.fInv

\* C7: once Fatal or Fatalf has ended the process, the status is non-zero and
\* Handle has been invoked for the record on every active sink.
FatalAfterEverySink ==
    pc = "exited" =>
        /\ exitCode # 0
        /\ trace.cInv
        /\ (Multi => trace.fInv)

----------------------------------------------------------------------------
(* Specification of the file handler over time: the clock advances, the zone
   and the retention vary, the directory holds files of earlier runs *)

\* a line an earlier run of the program wrote on day d
OldLine(d) == [id |-> 0, level |-> LevelInfo, date |-> d]

RotateApis == {"Info", "Fatal"}

InitRotate ==
    /\ config \in [level : {"debug"}, save : {"true"},
                   retentionDays : 1..MaxRetention, off : Offsets]
    /\ logLevel = LevelInfo
    /\ now = StartDay * HoursPerDay + StartHour
    /\ dir = <<>>
    /\ hFile = NilFile
    /\ openFds = {}
    /\ console = <<>>
    /\ diag = [stderr |-> 0, stdout |-> 0]
    /\ pc = "boot"
    /\ rec = NoRec
    /\ calls = 0
    /\ trace = NoTrace
    /\ op = NoOp
    /\ lastDay = -1
    /\ lastEnd = "returned"
    /\ ioFailed = FALSE
    /\ exitCode = -1
    /\ dir0 = <<>>
    /\ EnvIdle
    /\ ConIdle
    /\ StkIdle

NextRotate ==
    \/ InitPkg
    \/ \E api \in RotateApis : Call(api)
    \/ ConsoleHandle
    \/ FileHandle
    \/ Return
    \/ Tick

SpecRotate == InitRotate /\ [][NextRotate]_vars

----------------------------------------------------------------------------
(* Claims about the file handler over time *)

\* the last FileHandler operation was a write that found a file of another date open
SawDateChange ==
    /\ op.kind = "handle"
    /\ op.preFile.fd # 0 /\ op.preOpen /\ ~op.statErr
    /\ op.preFile.name # LogName(op.today)

\* C4: when no I/O has failed and a write has found the open file to be of another
\* date, that write closed it and opened the file of the new date, and every record
\* logged so far is on exactly one line of exactly one file of the directory.
NoRecordLostAcrossDays ==
    (pc = "ret" /\ ~ioFailed /\ SawDateChange) =>
        /\ op.closed /\ op.opened
        /\ hFile.name = LogName(op.today) /\ hFile.fd \in openFds
        /\ \A id \in 1..calls : Cardinality(FilePlaces(id)) = 1

\* C5: the FileHandler holds at most one open descriptor.
AtMostOneOpenFile == Cardinality(openFds) <= 1

\* a write has rotated: it closed the previous day's file and opened the new one
AtMostOneOpenFileWitness ==
    /\ pc = "ret" /\ SawDateChange /\ op.closed /\ op.opened
    /\ Cardinality(openFds) = 1

\* C8: a write during which MkdirAll or OpenFile failed appended nothing, reported
\* the failure exactly once, and Handle returned no error.
FailedOpenIsDroppedQuietly ==
    (pc = "ret" /\ op.kind = "handle" /\ (op.mkdirFailed \/ op.openFailed)) =>
        /\ ~op.appended
        /\ op.reports = 1
        /\ ~op.err

\* C10 as stated: a write runs cleanOldLogs only if the date it observes differs
\* from the date the previous FileHandler operation observed.
CleanOnlyOnDateChange ==
    (op.kind = "handle" /\ op.cleaned) => op.today # op.prevToday

\* C10 as amended: cleanOldLogs runs only in an operation that has to open a file:
\* at construction, or in a write that finds no file held, or finds the held file
\* open but Stat failing or named for another date; and MkdirAll succeeded in it.
\* It never runs in a write that finds the current day's file open.
CleanOnlyWhenOpening ==
    op.cleaned =>
        /\ ~op.mkdirFailed
        /\ \/ op.kind = "new"
           \/ /\ op.kind = "handle"
              /\ \/ op.preFile.fd = 0
                 \/ op.preOpen /\ (op.statErr \/ op.preFile.name # LogName(op.today))

\* a write on an unchanged date ran cleanOldLogs, after an open that had failed
CleanOnlyWhenOpeningWitness ==
    /\ op.kind = "handle" /\ op.cleaned
    /\ op.today = op.prevToday /\ op.preFile.fd = 0

----------------------------------------------------------------------------
(* Specification of cleanOldLogs on its own: every retention, zone, time of day
   and a directory of dated log files and other entries *)

\* entries that are not dated log files: a directory named like an old log file, a
\* file of another suffix, a .log file whose date does not parse
OddNames == {Name(DateText(0), ".log"), Name(DateText(1), ".txt"),
             Name([wf |-> FALSE, day |-> 1], ".log")}

OddEntry(n) == IF n = Name(DateText(0), ".log") THEN Directory ELSE RegularFile(<<>>)

\* the directory holding the log files of the days lo..hi and the odd entries X
CleanDir(lo, hi, X) ==
    [n \in {LogName(d) : d \in lo..hi} \cup X |->
        IF n \in X THEN OddEntry(n) ELSE RegularFile(<<OldLine(n.day)>>)]

InitClean ==
    /\ config \in [level : {"debug"}, save : {"true"},
                   retentionDays : 1..CleanMaxRetention, off : Offsets]
    /\ logLevel = LevelDebug
    /\ now \in {CleanDays * HoursPerDay + h : h \in {0, TickHours, 2 * TickHours}}
    /\ \E lo \in 1..CleanDays, hi \in 0..(CleanDays + 1), X \in SUBSET OddNames :
         /\ lo <= hi + 1
         /\ dir = CleanDir(lo, hi, X)
    /\ dir0 = dir
    /\ hFile = NilFile
    /\ openFds = {}
    /\ console = <<>>
    /\ diag = [stderr |-> 0, stdout |-> 0]
    /\ pc = "clean"
    /\ rec = NoRec
    /\ calls = 0
    /\ trace = NoTrace
    /\ op = NoOp
    /\ lastDay = -1
    /\ lastEnd = "returned"
    /\ ioFailed = FALSE
    /\ exitCode = -1
    /\ EnvIdle
    /\ ConIdle
    /\ StkIdle

\* one call of cleanOldLogs
CleanStep ==
    /\ pc = "clean"
    /\ \E readDirErr \in BOOLEAN, rmErr \in {{}, DOMAIN dir} :
         LET c == cleanOldLogs(dir, config.retentionDays, now, readDirErr, rmErr)
         IN /\ dir' = c.dir
            /\ diag' = fprintfTimes(diag, c.reports)
            /\ ioFailed' = c.ioErr
    /\ pc' = "cleaned"
    /\ UNCHANGED <<config, logLevel, now, hFile, openFds, console, rec, calls,
                   trace, op, lastDay, lastEnd, exitCode, dir0, envVars, conVars, stkVars>>

NextClean == CleanStep

SpecClean == InitClean /\ [][NextClean]_vars

\* the entries the claim has cleanOldLogs delete: regular files named <date>.log
\* whose date is strictly before today - retentionDays, today in the configured zone
ClaimedOld(d) ==
    {n \in DOMAIN d :
        /\ ~d[n].isDir
        /\ n.ext = ".log"
        /\ n.wf
        /\ n.day < LocalDay(now, config.off) - config.retentionDays}

\* C3: after cleanOldLogs ran without an I/O failure, the directory is the one it
\* started from less exactly the regular files <date>.log with date < today - N.
CleanDeletesExactlyOld ==
    (pc = "cleaned" /\ ~ioFailed) =>
        dir = Restrict(dir0, (DOMAIN dir0) \ ClaimedOld(dir0))

----------------------------------------------------------------------------
(* loadEnv.  A string is a tuple of characters. *)

RECURSIVE TrimLeft(_, _)
TrimLeft(str, cutset) ==
    IF str # <<>> /\ Head(str) \in cutset THEN TrimLeft(Tail(str), cutset) ELSE str

RECURSIVE TrimRight(_, _)
TrimRight(str, cutset) ==
    IF str # <<>> /\ str[Len(str)] \in cutset
    THEN TrimRight(SubSeq(str, 1, Len(str) - 1), cutset)
    ELSE str

\* strings.Trim
Trim(str, cutset) == TrimRight(TrimLeft(str, cutset), cutset)

\* strings.TrimSpace
TrimSpace(str) == Trim(str, {" "})

\* strings.HasPrefix(line, "#")
HasPrefixHash(str) == str # <<>> /\ Head(str) = "#"

\* the position of the first "=" of str, 0 when it has none
IndexEq(str) ==
    IF \E i \in DOMAIN str : str[i] = "="
    THEN CHOOSE i \in DOMAIN str : str[i] = "=" /\ \A j \in 1..(i - 1) : str[j] # "="
    ELSE 0

\* strings.SplitN(line, "=", 2)
SplitN2(str) ==
    IF IndexEq(str) = 0 THEN <<str>>
    ELSE <<SubSeq(str, 1, IndexEq(str) - 1), SubSeq(str, IndexEq(str) + 1, Len(str))>>

Unset == [set |-> FALSE, val |-> <<>>]

IsSet(val) == [set |-> TRUE, val |-> val]

\* os.Getenv: the value, empty when the variable is not present
Getenv(e, key) == IF key \in DOMAIN e /\ e[key].set THEN e[key].val ELSE <<>>

\* os.Setenv: an empty key is an error and sets nothing
Setenv(e, key, val) ==
    IF key = <<>> THEN e
    ELSE [k \in (DOMAIN e) \cup {key} |-> IF k = key THEN IsSet(val) ELSE e[k]]

\* the test loadEnv makes before it sets a variable
GetenvIsEmpty(e, key) == Getenv(e, key) = <<>>

\* the body of the scanner loop of loadEnv, for one line
loadEnvLine(e, text) ==
    LET line == TrimSpace(text)
        parts == SplitN2(line)
    IN IF line = <<>> \/ HasPrefixHash(line) THEN e
       ELSE IF Len(parts) # 2 THEN e
       ELSE LET key == TrimSpace(parts[1])
                value == Trim(TrimSpace(parts[2]), {"\"", "'"})
            IN IF GetenvIsEmpty(e, key) THEN Setenv(e, key, value) ELSE e

EnvKeys == {<<"K">>, <<"J">>}

EnvLines == {<<"K", "=", "w">>, <<"K", "=">>, <<"K", "=", "'", "w", "'">>,
             <<" ", "K", " ", "=", " ", "x", " ">>, <<"#", "K", "=", "w">>,
             <<>>, <<"K">>, <<"=", "w">>, <<"J", "=", "w">>,
             <<"K", "=", "w", "=", "x">>}

RECURSIVE SeqsUpTo(_, _)
SeqsUpTo(S, n) ==
    IF n = 0 THEN {<<>>}
    ELSE SeqsUpTo(S, n - 1) \cup {Append(q, x) : q \in SeqsUpTo(S, n - 1), x \in S}

MainIdle ==
    /\ config = [level |-> "", save |-> "", retentionDays |-> MaxRetention, off |-> 0]
    /\ logLevel = LevelInfo
    /\ now = StartDay * HoursPerDay
    /\ dir = <<>>
    /\ dir0 = <<>>
    /\ hFile = NilFile
    /\ openFds = {}
    /\ console = <<>>
    /\ diag = [stderr |-> 0, stdout |-> 0]
    /\ pc = "boot"
    /\ rec = NoRec
    /\ calls = 0
    /\ trace = NoTrace
    /\ op = NoOp
    /\ lastDay = -1
    /\ lastEnd = "returned"
    /\ ioFailed = FALSE
    /\ exitCode = -1

InitEnv ==
    /\ MainIdle
    /\ ConIdle
    /\ StkIdle
    /\ env \in [EnvKeys -> {Unset, IsSet(<<>>), IsSet(<<"v">>)}]
    /\ env0 = env
    /\ envFile \in [exists : {TRUE}, lines : SeqsUpTo(EnvLines, MaxEnvLines)]
                   \cup {[exists |-> FALSE, lines |-> <<>>]}
    /\ envPos = 0

\* os.Open: a missing file ends loadEnv with nothing read
LoadEnvOpen ==
    /\ envPos = 0
    /\ envPos' = 1
    /\ UNCHANGED <<env, env0, envFile, mainVars, conVars, stkVars>>

\* one turn of the scanner loop
LoadEnvScan ==
    /\ envPos \in 1..Len(envFile.lines)
    /\ env' = loadEnvLine(env, envFile.lines[envPos])
    /\ envPos' = envPos + 1
    /\ UNCHANGED <<env0, envFile, mainVars, conVars, stkVars>>

NextEnv == LoadEnvOpen \/ LoadEnvScan

SpecEnv == InitEnv /\ [][NextEnv]_vars

\* C6: a variable present in the environment before loadEnv keeps its value.
EnvPresentUnchanged ==
    \A key \in DOMAIN env0 :
        env0[key].set => (key \in DOMAIN env /\ env[key] = env0[key])

----------------------------------------------------------------------------
(* ConsoleHandler.Handle called by several goroutines.  A line is LineLen bytes;
   Write puts them on the stream one after the other and may fail part way. *)

Writers == 1..NumWriters

CanLockAlways(p) == TRUE

\* h.mu.Lock() goes through when the mutex is free
CanLock(p) == mu = 0

\* the Handle calls made so far, over all goroutines
Started ==
    Cardinality({qr \in Writers \X (1..ConCalls) :
                    \/ qr[2] < cpc[qr[1]].r
                    \/ qr[2] = cpc[qr[1]].r /\ cpc[qr[1]].at # "start"})

InitCon ==
    /\ MainIdle
    /\ EnvIdle
    /\ StkIdle
    /\ cpc = [p \in Writers |-> [at |-> "start", r |-> 1, i |-> 0, bad |-> {}]]
    /\ mu = 0
    /\ stream = <<>>

\* the line is formatted: level text, timestamp, message
ConFormat(p) ==
    /\ cpc[p].at = "start"
    /\ Started < ConCalls
    /\ cpc' = [cpc EXCEPT ![p].at = "formatted"]
    /\ UNCHANGED <<mu, stream, mainVars, envVars, stkVars>>

\* h.mu.Lock()
ConLock(p) ==
    /\ cpc[p].at = "formatted"
    /\ CanLock(p)
    /\ mu' = p
    /\ cpc' = [cpc EXCEPT ![p].at = "locked", ![p].i = 0]
    /\ UNCHANGED <<stream, mainVars, envVars, stkVars>>

\* h.w.Write: the next byte of the line reaches the stream
ConWrite(p) ==
    /\ cpc[p].at = "locked"
    /\ cpc[p].i < LineLen
    /\ stream' = Append(stream, [p |-> p, r |-> cpc[p].r, i |-> cpc[p].i + 1])
    /\ cpc' = [cpc EXCEPT ![p].i = @ + 1]
    /\ UNCHANGED <<mu, mainVars, envVars, stkVars>>

\* h.w.Write returns an error with the line not fully written
ConWriteFail(p) ==
    /\ cpc[p].at = "locked"
    /\ cpc[p].i < LineLen
    /\ cpc' = [cpc EXCEPT ![p].i = LineLen, ![p].bad = @ \cup {cpc[p].r}]
    /\ UNCHANGED <<mu, stream, mainVars, envVars, stkVars>>

\* the deferred h.mu.Unlock(), and Handle returns
ConUnlock(p) ==
    /\ cpc[p].at = "locked"
    /\ cpc[p].i = LineLen
    /\ mu' = IF mu = p THEN 0 ELSE mu
    /\ cpc' = [cpc EXCEPT ![p].at = "start", ![p].r = @ + 1, ![p].i = 0]
    /\ UNCHANGED <<stream, mainVars, envVars, stkVars>>

NextCon ==
    \E p \in Writers :
        \/ ConFormat(p)
        \/ ConLock(p)
        \/ ConWrite(p)
        \/ ConWriteFail(p)
        \/ ConUnlock(p)

SpecCon == InitCon /\ [][NextCon]_vars

SameLine(a, b) == a.p = b.p /\ a.r = b.r

\* C9 as amended: every byte of the stream but a line's first directly follows the
\* byte before it of the same line, and every byte but a line's last is directly
\* followed by the next byte of the same line, unless that line's Write failed or
\* is still going on under the mutex: the bytes of two lines never interleave.  The
\* Write is done under the handler's mutex; the line is formatted before the
\* mutex is taken.
LinesNeverInterleave ==
    \A k \in DOMAIN stream :
        /\ \/ stream[k].i = 1
           \/ k > 1 /\ SameLine(stream[k - 1], stream[k])
                    /\ stream[k - 1].i = stream[k].i - 1
        /\ \/ stream[k].i = LineLen
           \/ k < Len(stream) /\ SameLine(stream[k + 1], stream[k])
                              /\ stream[k + 1].i = stream[k].i + 1
           \/ k = Len(stream) /\ mu = stream[k].p
                              /\ cpc[mu].at = "locked" /\ cpc[mu].r = stream[k].r
           \/ stream[k].r \in cpc[stream[k].p].bad

\* two goroutines have each written a whole line, one after the other, and a third
\* line has been formatted while the mutex was not held by its goroutine
LinesNeverInterleaveWitness ==
    /\ Len(stream) >= 2 * LineLen
    /\ \E k \in DOMAIN stream : stream[k].p # stream[1].p
    /\ \A p \in Writers : cpc[p].bad = {}
    /\ \E p \in Writers : cpc[p].at = "formatted" /\ mu # p

\* C9 as stated: the line of a record is formatted under the handler's mutex: a
\* goroutine that has formatted its line and not yet written it holds the mutex.
FormatUnderMutex ==
    \A p \in Writers : cpc[p].at = "formatted" => mu = p

----------------------------------------------------------------------------
(* ErrorFprintf, WarnFprintf, InfoFprintf, DebugFprintf and logWriter.Write: the
   message goes to the public function of the level, then len(msg), nil is
   returned *)

FprintfApis == {"ErrorFprintf", "WarnFprintf", "InfoFprintf", "DebugFprintf",
                "ErrorWriter.Write", "WarnWriter.Write", "InfoWriter.Write",
                "DebugWriter.Write"}

\* the public function an Fprintf function or a writer adapter hands its message to
LogFunc(api) ==
    CASE api \in {"ErrorFprintf", "ErrorWriter.Write"} -> "Error"
      [] api \in {"WarnFprintf", "WarnWriter.Write"}   -> "Warn"
      [] api \in {"InfoFprintf", "InfoWriter.Write"}   -> "Info"
      [] OTHER                                         -> "Debug"

\* the messages: byte strings of up to MaxMsgLen bytes
Messages == {[i \in 1..k |-> "m"] : k \in 0..MaxMsgLen}

\* return len(msg), nil
FprintfReturn(msg) == [n |-> Len(msg), err |-> FALSE]

\* an Fprintf function or Write is called with msg: the record is built by the
\* public function of its level
Fprintf(api, msg) ==
    /\ pc = "idle"
    /\ calls < MaxCalls
    /\ calls' = calls + 1
    /\ LET level == ApiLevel(LogFunc(api))
       IN /\ rec' = [id |-> calls + 1, api |-> api, level |-> level,
                     time |-> now, fatal |-> FALSE,
                     admitted |-> LoggerEnabled(level), msg |-> msg]
          /\ pc' = IF ~LoggerEnabled(level) THEN "ret"
                   ELSE IF ~Multi \/ ConsoleEnabled(level) THEN "console"
                   ELSE "file"
    /\ trace' = NoTrace
    /\ op' = NoOp
    /\ UNCHANGED <<config, logLevel, now, dir, hFile, openFds, console, diag,
                   lastDay, lastEnd, ioFailed, exitCode, dir0, envVars, conVars, stkVars>>

NextFprintf ==
    \/ InitPkg
    \/ \E api \in FprintfApis, msg \in Messages : Fprintf(api, msg)
    \/ ConsoleHandle
    \/ FileHandle
    \/ Return

SpecFprintf == Init /\ [][NextFprintf]_vars

\* C11: when an Fprintf function or a writer's Write returns, the count it returns
\* is 0 if the level gate dropped the record, and the error it returns is non-nil
\* if a sink's write failed.
FprintfReportsOutcome ==
    (pc = "ret" /\ rec.api \in FprintfApis) =>
        LET r == FprintfReturn(rec.msg)
        IN /\ (~rec.admitted => r.n = 0)
           /\ ((trace.cErr \/ trace.fErr) => r.err)

----------------------------------------------------------------------------
(* The caller annotation: the call stack from the user's code down to getCaller,
   on every public entry point, in both configurations *)

Frame(pkg, fn) == [pkg |-> pkg, fn |-> fn]

\* the user's function that calls the log package, and what called it
UserCode == Frame("app", "work")

UserStack == <<UserCode, Frame("app", "main"), Frame("runtime", "main")>>

Push(f, stk) == <<f>> \o stk

\* runtime.Caller(skip) as called from getCaller: skip 0 is getCaller itself;
\* "unknown:0" when the stack is not that deep
getCaller(stk, skip) ==
    LET s == Push(Frame("log", "getCaller"), stk)
    IN IF skip + 1 <= Len(s) THEN s[skip + 1] ELSE Frame("", "unknown")

\* the line carries no caller when config.showCaller is false
NoCaller == Frame("", "")

\* the slog.Logger method a public function calls
SlogMethod(api) ==
    CASE ApiLevel(api) = LevelError -> "Logger.Error"
      [] ApiLevel(api) = LevelWarn  -> "Logger.Warn"
      [] ApiLevel(api) = LevelInfo  -> "Logger.Info"
      [] OTHER                      -> "Logger.Debug"

InitCaller ==
    /\ config \in [level : {"debug"}, save : {"true", ""},
                   retentionDays : {MaxRetention}, off : {0}, showCaller : BOOLEAN]
    /\ logLevel = LevelDebug
    /\ now = StartDay * HoursPerDay
    /\ dir = <<>>
    /\ dir0 = <<>>
    /\ hFile = NilFile
    /\ openFds = {}
    /\ console = <<>>
    /\ diag = [stderr |-> 0, stdout |-> 0]
    /\ pc = "idle"
    /\ rec = NoRec
    /\ calls = 0
    /\ trace = NoTrace
    /\ op = NoOp
    /\ lastDay = -1
    /\ lastEnd = "returned"
    /\ ioFailed = FALSE
    /\ exitCode = -1
    /\ EnvIdle
    /\ ConIdle
    /\ stack = UserStack
    /\ spc = "user"
    /\ callers = <<>>

\* the user's code calls a public function of the package
UserCalls(api) ==
    /\ spc = "user"
    /\ stack' = Push(Frame("log", api), stack)
    /\ spc' = "public"
    /\ UNCHANGED <<callers, mainVars, envVars, conVars>>

\* the public function calls logger.<Level>; an Fprintf function and a writer's
\* Write call the public function of their level first
PublicCalls ==
    /\ spc = "public"
    /\ IF stack[1].fn \in FprintfApis
       THEN /\ stack' = Push(Frame("log", LogFunc(stack[1].fn)), stack)
            /\ spc' = "public"
       ELSE /\ stack' = Push(Frame("slog", SlogMethod(stack[1].fn)), stack)
            /\ spc' = "slog"
    /\ UNCHANGED <<callers, mainVars, envVars, conVars>>

\* slog: Logger.<Level> calls Logger.log
LoggerLogs ==
    /\ spc = "slog"
    /\ stack' = Push(Frame("slog", "Logger.log"), stack)
    /\ spc' = "log"
    /\ UNCHANGED <<callers, mainVars, envVars, conVars>>

\* slog: Logger.log calls Handle of the handler the logger was built with
LogHandles ==
    /\ spc = "log"
    /\ IF Multi
       THEN /\ stack' = Push(Frame("log", "MultiHandler.Handle"), stack)
            /\ spc' = "multi"
       ELSE /\ stack' = Push(Frame("log", "ConsoleHandler.Handle"), stack)
            /\ spc' = "console"
    /\ UNCHANGED <<callers, mainVars, envVars, conVars>>

\* MultiHandler.Handle calls the console handler, the first of its handlers
MultiHandles ==
    /\ spc = "multi"
    /\ stack' = Push(Frame("log", "ConsoleHandler.Handle"), stack)
    /\ spc' = "console"
    /\ UNCHANGED <<callers, mainVars, envVars, conVars>>

\* the caller segment of the line a handler formats
CallerOf(stk) == IF config.showCaller THEN getCaller(stk, CallerSkip) ELSE NoCaller

\* ConsoleHandler.Handle formats its line and returns; MultiHandler.Handle then
\* calls the file handler
ConsoleLine ==
    /\ spc = "console"
    /\ callers' = Append(callers, [handler |-> "console", caller |-> CallerOf(stack)])
    /\ IF Multi
       THEN /\ stack' = Push(Frame("log", "FileHandler.Handle"), Tail(stack))
            /\ spc' = "file"
       ELSE /\ stack' = UserStack
            /\ spc' = "done"
    /\ UNCHANGED <<mainVars, envVars, conVars>>

\* FileHandler.Handle formats its line and returns
FileLine ==
    /\ spc = "file"
    /\ callers' = Append(callers, [handler |-> "file", caller |-> CallerOf(stack)])
    /\ stack' = UserStack
    /\ spc' = "done"
    /\ UNCHANGED <<mainVars, envVars, conVars>>

NextCaller ==
    \/ \E api \in Apis \cup FprintfApis : UserCalls(api)
    \/ PublicCalls
    \/ LoggerLogs
    \/ LogHandles
    \/ MultiHandles
    \/ ConsoleLine
    \/ FileLine

SpecCaller == InitCaller /\ [][NextCaller]_vars

\* C12: with LOG_SHOW_CALLER=true, the caller of every emitted line is the user's
\* code that called the public function, on every entry point and in both
\* configurations.
CallerIsUserCode ==
    config.showCaller => \A k \in DOMAIN callers : callers[k].caller = UserCode

----------------------------------------------------------------------------
(* Claims about today's file, recovery and the date of the lines *)

\* C13: cleanOldLogs leaves the regular file named for today's date in the
\* configured zone in the directory, with its contents.
TodayFileKept ==
    pc = "cleaned" =>
        LET today == LogFileName(now, config.off)
        IN (today \in DOMAIN dir0 /\ ~dir0[today].isDir) =>
               (today \in DOMAIN dir /\ dir[today] = dir0[today])

\* what FileHandler.Handle does to the file when none of its operations is made to fail
HandleNoFault == ensureLogFile(hFile, openFds, dir, diag, config, now, Inject({}))

\* C14: when the last operation closed the previous file and then failed in
\* MkdirAll or OpenFile, a Handle call whose filesystem operations all succeed
\* opens the file named for the current date and appends its record to it.
RecoversAfterFailedRotation ==
    (pc = "file" /\ lastEnd = "open failed" /\ hFile.fd # 0) =>
        LET e == HandleNoFault
        IN /\ e.opened
           /\ e.file.name = LogFileName(now, config.off)
           /\ e.file.fd \in e.fds

\* C15: every line of the file D.log carries a timestamp whose date in the
\* configured zone is D.
LineDateIsFileDate ==
    \A n \in DOMAIN dir :
        \A i \in DOMAIN dir[n].data : dir[n].data[i].date = n.day

====
